---- MODULE Spec2Model ----
(***************************************************************************)
(* A model of utest.h: a header-only unit-test harness.  The module body   *)
(* (the code between UTEST_BEGIN_MODULE and UTEST_END_MODULE) is a         *)
(* sequence of statements: case starts, checks of the four families, and   *)
(* plain statements that may throw.  Each macro is an operator over the    *)
(* process state (a record), composed the way the preprocessor composes    *)
(* the macros; each action runs one statement of the module body.          *)
(***************************************************************************)
EXTENDS Integers, Sequences, FiniteSets, TLC

\* ---------------------------------------------------------------- bounds
MaxChecks == 2          \* checks a module body evaluates at most
MaxCases == 2           \* cases a module body starts at most
MaxOperandChecks == 1   \* checks of a module body of SpecOperands
EpsDen == 4             \* numbers are multiples of 1/EpsDen
FloatBits == 2          \* significant bits of a floating-point result
MaxThreadChecks == 2    \* checks each thread of SpecThreads runs

\* ------------------------------------------------------- input alphabets
ModuleNames == {"mod"}
CaseNames == {"caseA", "caseB"}
Vals == {0, 1, 2}
\* epsilon of an approximate-equality check is a numerator over EpsDen
EpsNums == {0, 1}
\* kinds of exception user code throws; "int" stands for a type that is
\* not derived from std::exception
Kinds == {"std::exception", "std::runtime_error", "int"}
\* result of running a unit of work or of evaluating an expression
NoThrow == "nothrow"
Relations == {"==", "!=", "<", "<=", ">", ">="}
\* the threads the module body starts besides the main thread
Threads == {"t1", "t2"}

\* C++ handler matching: catch (T&) takes an exception of type T or of a
\* type publicly derived from T
IsA(thrown, T) ==
    \/ thrown = T
    \/ T = "std::exception" /\ thrown = "std::runtime_error"

Abs(x) == IF x < 0 THEN -x ELSE x

VARIABLES
    utest_case_name,     \* static std::string utest_case_name
    utest_module_name,   \* static std::string utest_module_name
    utest_n_cases,       \* static std::size_t utest_n_cases
    utest_n_checks,      \* static std::atomic<std::size_t> utest_n_checks
    utest_n_failures,    \* static std::atomic<std::size_t> utest_n_failures
    cout,                \* the lines written to std::cout, in order
    status,              \* where the process is in its life
    exit_code,           \* the argument of exit(), "none" while running
    uncaught,            \* the exception caught at the module boundary
    evals,               \* how often the last statement evaluated the caller's
                         \* left and right operand expressions
    invoked,             \* how often the last statement ran its unit of work
    outcome,             \* the exception_status check_throw returned to it
    executed,            \* how many check statements of the module body ran
    last,                \* the statement of the module body that ran last
    threads              \* where each thread started by the module body is in
                         \* its checks

vars == <<utest_case_name, utest_module_name, utest_n_cases, utest_n_checks,
          utest_n_failures, cout, status, exit_code, uncaught, evals, invoked, outcome, executed, last,
          threads>>

\* the process state as one value, so that macros compose as functions
Cur ==
    [case_name |-> utest_case_name, module_name |-> utest_module_name,
     n_cases |-> utest_n_cases, n_checks |-> utest_n_checks,
     n_failures |-> utest_n_failures, cout |-> cout, status |-> status,
     exit_code |-> exit_code, uncaught |-> uncaught,
     evals |-> [left |-> 0, right |-> 0], invoked |-> 0, outcome |-> "-"]

\* a statement of the main thread; the other threads do not move
Commit(s) ==
    /\ threads' = threads
    /\ utest_case_name' = s.case_name
    /\ utest_module_name' = s.module_name
    /\ utest_n_cases' = s.n_cases
    /\ utest_n_checks' = s.n_checks
    /\ utest_n_failures' = s.n_failures
    /\ cout' = s.cout
    /\ status' = s.status
    /\ exit_code' = s.exit_code
    /\ uncaught' = s.uncaught
    /\ evals' = s.evals
    /\ invoked' = s.invoked
    /\ outcome' = s.outcome

\* a line of output
Line(kind, module, case, text, a, b, noun) ==
    [kind |-> kind, module |-> module, case |-> case, text |-> text,
     a |-> a, b |-> b, noun |-> noun]

\* faulty variant: exit() returns to its caller and the process runs on
Exit_Returns(s, code, st) == [s EXCEPT !.exit_code = code]

\* exit(code): the process ends in state st; nothing runs after it
Exit(s, code, st) == [s EXCEPT !.exit_code = code, !.status = st]

\* faulty variant: the handlers exit with the verdict of the counters
ModuleCatch_ExitByVerdict(s, thrown) ==
    Exit([s EXCEPT !.uncaught = thrown,
                   !.cout = Append(@, Line("uncaught", "", "", "uncaught exception", 0, 0, ""))],
         IF s.n_failures > 0 THEN "FAILURE" ELSE "SUCCESS", "MODULE_ENDED")

\* the handlers that close the try block of main
ModuleCatch(s, thrown) ==
    IF IsA(thrown, "std::exception")
    THEN Exit([s EXCEPT !.uncaught = thrown,
                        !.cout = Append(@, Line("uncaught", "", "", "uncaught exception", 0, 0, ""))],
              "FAILURE", "MODULE_ENDED")
    ELSE Exit([s EXCEPT !.uncaught = thrown,
                        !.cout = Append(@, Line("uncaught", "", "", "uncaught unknown exception", 0, 0, ""))],
              "FAILURE", "MODULE_ENDED")

\* (utest_n_checks > 0 ? "s" : "")
Plural(n) == IF n > 0 THEN "checks" ELSE "check"

\* faulty variant: both branches exit with EXIT_SUCCESS
UTEST_END_MODULE_AlwaysSuccess(s) ==
    IF s.n_failures > 0
    THEN Exit([s EXCEPT !.cout = Append(@, Line("summary", "", "", "failed with", s.n_failures, s.n_checks, Plural(s.n_checks)))],
              "SUCCESS", "MODULE_ENDED")
    ELSE Exit([s EXCEPT !.cout = Append(@, Line("summary", "", "", "no errors detected in", 0, s.n_checks, Plural(s.n_checks)))],
              "SUCCESS", "MODULE_ENDED")

\* faulty variant: the failure branch exits without printing the summary
UTEST_END_MODULE_SilentOnFailure(s) ==
    IF s.n_failures > 0
    THEN Exit(s, "FAILURE", "MODULE_ENDED")
    ELSE Exit([s EXCEPT !.cout = Append(@, Line("summary", "", "", "no errors detected in", 0, s.n_checks, Plural(s.n_checks)))],
              "SUCCESS", "MODULE_ENDED")

UTEST_END_MODULE(s) ==
    IF s.n_failures > 0
    THEN Exit([s EXCEPT !.cout = Append(@, Line("summary", "", "", "failed with", s.n_failures, s.n_checks, Plural(s.n_checks)))],
              "FAILURE", "MODULE_ENDED")
    ELSE Exit([s EXCEPT !.cout = Append(@, Line("summary", "", "", "no errors detected in", 0, s.n_checks, Plural(s.n_checks)))],
              "SUCCESS", "MODULE_ENDED")

UTEST_BEGIN_MODULE(s, name) == [s EXCEPT !.module_name = name, !.status = "MODULE_RUNNING"]

\* faulty variant: a case start resets the check counters
UTEST_CASE_ResetsCounters(s, name) ==
    LET s1 == [s EXCEPT !.n_cases = @ + 1, !.n_checks = 0, !.n_failures = 0]
        s2 == [s1 EXCEPT !.case_name = name]
    IN  [s2 EXCEPT !.cout = Append(@, Line("case", s2.module_name, s2.case_name, "running test case", 0, 0, ""))]

\* faulty variant: the current case name is not overwritten
UTEST_CASE_KeepsName(s, name) ==
    LET s1 == [s EXCEPT !.n_cases = @ + 1]
    IN  [s1 EXCEPT !.cout = Append(@, Line("case", s1.module_name, name, "running test case", 0, 0, ""))]

UTEST_CASE(s, name) ==
    LET s1 == [s EXCEPT !.n_cases = @ + 1]
        s2 == [s1 EXCEPT !.case_name = name]
    IN  [s2 EXCEPT !.cout = Append(@, Line("case", s2.module_name, s2.case_name, "running test case", 0, 0, ""))]

\* faulty variant: a critical failure does not exit
UTEST_HANDLE_CRITICAL_NoExit(s, critical) == s

UTEST_HANDLE_CRITICAL(s, critical) ==
    IF critical THEN Exit(s, "FAILURE", "ABORTED") ELSE s

\* faulty variant: the failure is counted but no line is written
UTEST_HANDLE_FAILURE_NoLine(s, text, a, b) == [s EXCEPT !.n_failures = @ + 1]

\* ++ utest_n_failures; std::cout << file:line: [module/case << text
UTEST_HANDLE_FAILURE(s, text, a, b) ==
    LET s1 == [s EXCEPT !.n_failures = @ + 1]
    IN  [s1 EXCEPT !.cout = Append(@, Line("diag", s1.module_name, s1.case_name, text, a, b, ""))]

\* faulty variant: the check counter is not incremented
UTEST_EVALUATE_NoCount(s, check, critical) ==
    IF check \in Kinds THEN ModuleCatch(s, check)
    ELSE IF check = "false"
         THEN UTEST_HANDLE_CRITICAL(UTEST_HANDLE_FAILURE(s, "check failed", 0, 0), critical)
         ELSE s

\* faulty variant: the condition is if (check) instead of if (!(check))
UTEST_EVALUATE_Inverted(s, check, critical) ==
    LET s1 == [s EXCEPT !.n_checks = @ + 1]
    IN  IF check \in Kinds THEN ModuleCatch(s1, check)
        ELSE IF check = "true"
             THEN UTEST_HANDLE_CRITICAL(UTEST_HANDLE_FAILURE(s1, "check failed", 0, 0), critical)
             ELSE s1

\* check: "true", "false", or the kind of exception its evaluation throws,
\* which leaves the try block of main
UTEST_EVALUATE(s, check, critical) ==
    LET s1 == [s EXCEPT !.n_checks = @ + 1]
    IN  IF check \in Kinds THEN ModuleCatch(s1, check)
        ELSE IF check = "false"
             THEN UTEST_HANDLE_CRITICAL(UTEST_HANDLE_FAILURE(s1, "check failed", 0, 0), critical)
             ELSE s1

\* faulty variant: UTEST_CHECK passes critical = true
UTEST_CHECK_Critical(s, check) == UTEST_EVALUATE(s, check, TRUE)

UTEST_CHECK(s, check) == UTEST_EVALUATE(s, check, FALSE)
UTEST_REQUIRE(s, check) == UTEST_EVALUATE(s, check, TRUE)

\* op(): one invocation of the unit of work; work is NoThrow or the kind of
\* exception the work throws
Invoke(s, work) == [s |-> [s EXCEPT !.invoked = @ + 1], thrown |-> work]

\* return exception_status::status; nothing leaves check_throw
Classified(r, result) ==
    [s |-> [r.s EXCEPT !.outcome = result], result |-> result, escaped |-> NoThrow]

\* an exception no handler of check_throw takes leaves it
Escaped(r) == [s |-> r.s, result |-> "-", escaped |-> r.thrown]

\* faulty variant: there is no catch (...) handler
CheckThrowHandlers_NoCatchAll(texception, r) ==
    IF r.thrown = NoThrow THEN Classified(r, "none")
    ELSE IF IsA(r.thrown, texception) THEN Classified(r, "expected")
    ELSE Escaped(r)

\* the try block of check_throw and its two handlers
CheckThrowHandlers(texception, r) ==
    IF r.thrown = NoThrow THEN Classified(r, "none")
    ELSE IF IsA(r.thrown, texception) THEN Classified(r, "expected")
    ELSE Classified(r, "unexpected")

\* faulty variant: op() is run once to probe and once more in the try block
check_throw_InvokesTwice(s, texception, work) ==
    CheckThrowHandlers(texception, Invoke(Invoke(s, work).s, work))

check_throw(s, texception, work) == CheckThrowHandlers(texception, Invoke(s, work))

\* an exception that leaves a call inside the module body reaches the
\* handlers of main
Returned(r) == IF r.escaped # NoThrow THEN ModuleCatch(r.s, r.escaped) ELSE r.s

\* a statement that follows an exit() in the same macro does not run
Then(s, rest) == IF s.status = "MODULE_RUNNING" THEN rest ELSE s

\* the switch of UTEST_THROW; case none has no break and falls through to
\* case expected
ThrowCaseExpected(s) == s

ThrowCaseUnexpected(s, critical) ==
    UTEST_HANDLE_CRITICAL(UTEST_HANDLE_FAILURE(s, "does not throw {exception}", 0, 0), critical)

\* faulty variant: case none falls through into a case that records a failure
ThrowCaseNone_IntoUnexpected(s, critical) ==
    LET s1 == UTEST_HANDLE_CRITICAL(UTEST_HANDLE_FAILURE(s, "does not throw", 0, 0), critical)
    IN  Then(s1, ThrowCaseUnexpected(s1, critical))

ThrowCaseNone(s, critical) ==
    LET s1 == UTEST_HANDLE_CRITICAL(UTEST_HANDLE_FAILURE(s, "does not throw", 0, 0), critical)
    IN  Then(s1, ThrowCaseExpected(s1))

\* switch (check_throw<exception>(...))
ThrowSwitch(r, critical) ==
    IF r.escaped # NoThrow THEN Returned(r)
    ELSE CASE r.result = "none" -> ThrowCaseNone(r.s, critical)
           [] r.result = "expected" -> ThrowCaseExpected(r.s)
           [] r.result = "unexpected" -> ThrowCaseUnexpected(r.s, critical)

UTEST_THROW(s, call, exception, critical) ==
    ThrowSwitch(check_throw([s EXCEPT !.n_checks = @ + 1], exception, call), critical)

UTEST_CHECK_THROW(s, call, exception) == UTEST_THROW(s, call, exception, FALSE)
UTEST_REQUIRE_THROW(s, call, exception) == UTEST_THROW(s, call, exception, TRUE)

\* the switch of UTEST_NOTHROW; case expected falls through to case
\* unexpected
NothrowCaseThrows(s, critical) ==
    UTEST_HANDLE_CRITICAL(UTEST_HANDLE_FAILURE(s, "throws", 0, 0), critical)

\* switch (check_throw<std::exception>(...))
NothrowSwitch(r, critical) ==
    IF r.escaped # NoThrow THEN Returned(r)
    ELSE CASE r.result = "none" -> r.s
           [] r.result = "expected" -> NothrowCaseThrows(r.s, critical)
           [] r.result = "unexpected" -> NothrowCaseThrows(r.s, critical)

\* faulty variant: case expected has a break, so only a non-standard exception fails
NothrowSwitch_ExpectedBreaks(r, critical) ==
    IF r.escaped # NoThrow THEN Returned(r)
    ELSE CASE r.result = "none" -> r.s
           [] r.result = "expected" -> r.s
           [] r.result = "unexpected" -> NothrowCaseThrows(r.s, critical)

\* faulty variant: case expected has a break, so only a non-standard exception fails
UTEST_NOTHROW_ExpectedBreaks(s, call, critical) ==
    NothrowSwitch_ExpectedBreaks(check_throw([s EXCEPT !.n_checks = @ + 1], "std::exception", call), critical)

UTEST_NOTHROW(s, call, critical) ==
    NothrowSwitch(check_throw([s EXCEPT !.n_checks = @ + 1], "std::exception", call), critical)

UTEST_CHECK_NOTHROW(s, call) == UTEST_NOTHROW(s, call, FALSE)
UTEST_REQUIRE_NOTHROW(s, call) == UTEST_NOTHROW(s, call, TRUE)

\* ------------------------------------------------- operand expressions
\* Numbers are counted in units of 1/EpsDen. An operand value is exact; the
\* result of a floating-point operation is rounded to FloatBits significant
\* bits, to nearest and ties to even, with 1/EpsDen as the smallest spacing
\* (a double does the same with 53 bits).
Fix(v) == v * EpsDen

\* the spacing of the floating-point numbers around num / den units
Spacing(num, den) ==
    2 ^ (CHOOSE j \in 0 .. 24 :
            /\ num < den * 2 ^ (j + FloatBits)
            /\ j = 0 \/ num >= den * 2 ^ (j - 1 + FloatBits))

\* num / q to the nearest integer, ties to even
NearestEven(num, q) ==
    LET fl == num \div q
        twice == 2 * (num % q)
    IN  IF twice > q \/ (twice = q /\ fl % 2 = 1) THEN fl + 1 ELSE fl

\* the floating-point number nearest to num / den units (num >= 0, den > 0)
RoundDiv(num, den) == NearestEven(num, den * Spacing(num, den)) * Spacing(num, den)

Round(n) == RoundDiv(n, 1)

\* epsilon * x, for epsilon = eps / EpsDen
TimesEpsilon(eps, x) == RoundDiv(eps * x, EpsDen)

\* The caller's operand expression: its first evaluation yields val, every
\* further evaluation step more (step # 0 is an expression with a side
\* effect, such as i++), unless its evaluation throws.
Operand(side, val, step, throws) ==
    [form |-> "operand", side |-> side, val |-> val, step |-> step, throws |-> throws]

\* std::fabs((left) - (right)); the operands of - are evaluated in either
\* order
FabsDiff(x, y, order) == [form |-> "fabs_diff", x |-> x, y |-> y, order |-> order]

\* epsilon * (1 + std::fabs((left)) + std::fabs((right)))
Tolerance(eps, x, y, order) == [form |-> "tolerance", eps |-> eps, x |-> x, y |-> y, order |-> order]

Throwing(s, kind) == [s |-> s, throws |-> kind, v |-> 0]
Value(s, v) == [s |-> s, throws |-> NoThrow, v |-> v]

\* one evaluation of the caller's operand expression e
Evaluated(s, side) == [s EXCEPT !.evals[side] = @ + 1]

EvalOperand(s, e) ==
    IF e.throws # NoThrow THEN Throwing(Evaluated(s, e.side), e.throws)
    ELSE Value(Evaluated(s, e.side), Fix(e.val + s.evals[e.side] * e.step))

\* the two operands of a binary operator: a first, then b
PairOf(a, b) ==
    IF b.throws # NoThrow THEN [s |-> b.s, throws |-> b.throws, u |-> 0, w |-> 0]
    ELSE [s |-> b.s, throws |-> NoThrow, u |-> a.v, w |-> b.v]

AfterFirst(a, second) ==
    IF a.throws # NoThrow THEN [s |-> a.s, throws |-> a.throws, u |-> 0, w |-> 0]
    ELSE PairOf(a, EvalOperand(a.s, second))

EvalInOrder(s, first, second) == AfterFirst(EvalOperand(s, first), second)

\* x is the value of the left operand, y of the right one
LeftFirst(p) == [s |-> p.s, throws |-> p.throws, x |-> p.u, y |-> p.w]
RightFirst(p) == [s |-> p.s, throws |-> p.throws, x |-> p.w, y |-> p.u]

\* both operands of a binary operator, in the order the build chose
EvalPair(s, left, right, order) ==
    IF order = "lr" THEN LeftFirst(EvalInOrder(s, left, right))
    ELSE RightFirst(EvalInOrder(s, right, left))

FabsDiffOf(p) ==
    IF p.throws # NoThrow THEN Throwing(p.s, p.throws)
    ELSE Value(p.s, Round(Abs(p.x - p.y)))

ToleranceOf(eps, p) ==
    IF p.throws # NoThrow THEN Throwing(p.s, p.throws)
    ELSE Value(p.s, TimesEpsilon(eps, Round(Round(Fix(1) + Abs(p.x)) + Abs(p.y))))

Eval(s, e) ==
    CASE e.form = "operand" -> EvalOperand(s, e)
      [] e.form = "fabs_diff" -> FabsDiffOf(EvalPair(s, e.x, e.y, e.order))
      [] e.form = "tolerance" -> ToleranceOf(e.eps, EvalPair(s, e.x, e.y, e.order))

\* res_left op res_right
Holds(op, a, b) ==
    CASE op = "==" -> a = b
      [] op = "!=" -> a # b
      [] op = "<" -> a < b
      [] op = "<=" -> a <= b
      [] op = ">" -> a > b
      [] op = ">=" -> a >= b

\* if (!(res_left op res_right)) { ... }
BinaryOpCompare(res_left, res_right, op, critical) ==
    IF res_right.throws # NoThrow THEN ModuleCatch(res_right.s, res_right.throws)
    ELSE IF ~Holds(op, res_left.v, res_right.v)
         THEN UTEST_HANDLE_CRITICAL(
                  UTEST_HANDLE_FAILURE(res_right.s, op, res_left.v, res_right.v), critical)
         ELSE res_right.s

\* const auto res_right = (right);
BinaryOpRight(res_left, right, op, critical) ==
    IF res_left.throws # NoThrow THEN ModuleCatch(res_left.s, res_left.throws)
    ELSE BinaryOpCompare(res_left, Eval(res_left.s, right), op, critical)

\* faulty variant: the operands are not captured in res_left and res_right,
\* and the diagnostic evaluates (left) and (right) again
NoCapturePrint(left2, right2, op, critical) ==
    UTEST_HANDLE_CRITICAL(UTEST_HANDLE_FAILURE(right2.s, op, left2.v, right2.v), critical)

NoCaptureAgain(left2, right, op, critical) ==
    NoCapturePrint(left2, Eval(left2.s, right), op, critical)

NoCaptureCompare(res_left, res_right, left, right, op, critical) ==
    IF res_right.throws # NoThrow THEN ModuleCatch(res_right.s, res_right.throws)
    ELSE IF ~Holds(op, res_left.v, res_right.v)
         THEN NoCaptureAgain(Eval(res_right.s, left), right, op, critical)
         ELSE res_right.s

NoCaptureRight(res_left, left, right, op, critical) ==
    IF res_left.throws # NoThrow THEN ModuleCatch(res_left.s, res_left.throws)
    ELSE NoCaptureCompare(res_left, Eval(res_left.s, right), left, right, op, critical)

UTEST_EVALUATE_BINARY_OP_NoCapture(s, left, right, op, critical) ==
    NoCaptureRight(Eval([s EXCEPT !.n_checks = @ + 1], left), left, right, op, critical)

\* ++ utest_n_checks; const auto res_left = (left);
UTEST_EVALUATE_BINARY_OP(s, left, right, op, critical) ==
    BinaryOpRight(Eval([s EXCEPT !.n_checks = @ + 1], left), right, op, critical)

UTEST_EVALUATE_EQUAL(s, left, right, critical) == UTEST_EVALUATE_BINARY_OP(s, left, right, "==", critical)
UTEST_EVALUATE_NOT_EQUAL(s, left, right, critical) == UTEST_EVALUATE_BINARY_OP(s, left, right, "!=", critical)
UTEST_EVALUATE_LESS(s, left, right, critical) == UTEST_EVALUATE_BINARY_OP(s, left, right, "<", critical)
UTEST_EVALUATE_LESS_EQUAL(s, left, right, critical) == UTEST_EVALUATE_BINARY_OP(s, left, right, "<=", critical)
UTEST_EVALUATE_GREATER(s, left, right, critical) == UTEST_EVALUATE_BINARY_OP(s, left, right, ">", critical)
UTEST_EVALUATE_GREATER_EQUAL(s, left, right, critical) == UTEST_EVALUATE_BINARY_OP(s, left, right, ">=", critical)

\* the UTEST_CHECK_<relation> / UTEST_REQUIRE_<relation> macro of relation op
UTEST_EVALUATE_RELATION(s, left, right, op, critical) ==
    CASE op = "==" -> UTEST_EVALUATE_EQUAL(s, left, right, critical)
      [] op = "!=" -> UTEST_EVALUATE_NOT_EQUAL(s, left, right, critical)
      [] op = "<" -> UTEST_EVALUATE_LESS(s, left, right, critical)
      [] op = "<=" -> UTEST_EVALUATE_LESS_EQUAL(s, left, right, critical)
      [] op = ">" -> UTEST_EVALUATE_GREATER(s, left, right, critical)
      [] op = ">=" -> UTEST_EVALUATE_GREATER_EQUAL(s, left, right, critical)

\* faulty variant: the comparison is <= instead of <
UTEST_EVALUATE_CLOSE_NotStrict(s, left, right, epsilon, order1, order2, critical) ==
    UTEST_EVALUATE_LESS_EQUAL(s, FabsDiff(left, right, order1),
                              Tolerance(epsilon, left, right, order2), critical)

\* epsilon is a constant EpsNum / EpsDen; order1, order2: the evaluation
\* order inside each of the two operand expressions the macro builds
UTEST_EVALUATE_CLOSE(s, left, right, epsilon, order1, order2, critical) ==
    UTEST_EVALUATE_LESS(s, FabsDiff(left, right, order1),
                        Tolerance(epsilon, left, right, order2), critical)

UTEST_CHECK_CLOSE(s, left, right, epsilon, order1, order2) ==
    UTEST_EVALUATE_CLOSE(s, left, right, epsilon, order1, order2, FALSE)
UTEST_REQUIRE_CLOSE(s, left, right, epsilon, order1, order2) ==
    UTEST_EVALUATE_CLOSE(s, left, right, epsilon, order1, order2, TRUE)

\* ------------------------------------------------------------- the run
Orders == {"lr", "rl"}
\* left operands below, equal to and above the right operand, none with a
\* side effect, and one whose evaluation throws
LeftOperands ==
    {Operand("left", v, 0, NoThrow) : v \in Vals} \cup {Operand("left", 0, 0, "int")}
RightOperands ==
    {Operand("right", 1, 0, NoThrow)}
NoOperand == Operand("none", 0, 0, NoThrow)

\* the statement that ran last and its inputs
Stmt(op, critical, arg, exception, rel, left, right, epsilon) ==
    [op |-> op, critical |-> critical, arg |-> arg, exception |-> exception,
     rel |-> rel, left |-> left, right |-> right, epsilon |-> epsilon]

Plain(op, arg) == Stmt(op, FALSE, arg, "-", "-", NoOperand, NoOperand, 0)

\* a thread: its position, the value the counter it increments next had
\* when the thread last looked, and how many checks it ran and failed
Thread(pc, seen, ran, failed) == [pc |-> pc, seen |-> seen, ran |-> ran, failed |-> failed]

Init ==
    /\ utest_case_name = ""
    /\ utest_module_name = ""
    /\ utest_n_cases = 0
    /\ utest_n_checks = 0
    /\ utest_n_failures = 0
    /\ cout = <<>>
    /\ status = "UNSTARTED"
    /\ exit_code = "none"
    /\ uncaught = "none"
    /\ evals = [left |-> 0, right |-> 0]
    /\ invoked = 0
    /\ outcome = "-"
    /\ executed = 0
    /\ last = Plain("none", "-")
    /\ threads = [t \in Threads |-> Thread("idle", 0, 0, 0)]

Running == status = "MODULE_RUNNING"
MoreChecks == Running /\ executed < MaxChecks

BeginModule ==
    /\ status = "UNSTARTED"
    /\ \E name \in ModuleNames :
          /\ Commit(UTEST_BEGIN_MODULE(Cur, name))
          /\ last' = Plain("UTEST_BEGIN_MODULE", name)
          /\ executed' = executed

\* consecutive cases of a module body have different names
StartCase ==
    /\ Running
    /\ utest_n_cases < MaxCases
    /\ \E name \in CaseNames \ {utest_case_name} :
          /\ Commit(UTEST_CASE(Cur, name))
          /\ last' = Plain("UTEST_CASE", name)
          /\ executed' = executed

\* a statement of the module body that is no check and throws
BodyThrows ==
    /\ Running
    /\ \E kind \in Kinds :
          /\ Commit(ModuleCatch(Cur, kind))
          /\ last' = Plain("throw", kind)
          /\ executed' = executed

EndModule ==
    /\ Running
    /\ Commit(UTEST_END_MODULE(Cur))
    /\ last' = Plain("UTEST_END_MODULE", "-")
    /\ executed' = executed

Check ==
    /\ MoreChecks
    /\ \E check \in {"true", "false"} \cup Kinds :
          /\ Commit(UTEST_CHECK(Cur, check))
          /\ last' = Stmt("UTEST_CHECK", FALSE, check, "-", "-", NoOperand, NoOperand, 0)
          /\ executed' = executed + 1

Require ==
    /\ MoreChecks
    /\ \E check \in {"true", "false"} \cup Kinds :
          /\ Commit(UTEST_REQUIRE(Cur, check))
          /\ last' = Stmt("UTEST_REQUIRE", TRUE, check, "-", "-", NoOperand, NoOperand, 0)
          /\ executed' = executed + 1

CheckThrow ==
    /\ MoreChecks
    /\ \E call \in {NoThrow} \cup Kinds, exception \in Kinds :
          /\ Commit(UTEST_CHECK_THROW(Cur, call, exception))
          /\ last' = Stmt("UTEST_CHECK_THROW", FALSE, call, exception, "-", NoOperand, NoOperand, 0)
          /\ executed' = executed + 1

RequireThrow ==
    /\ MoreChecks
    /\ \E call \in {NoThrow} \cup Kinds, exception \in Kinds :
          /\ Commit(UTEST_REQUIRE_THROW(Cur, call, exception))
          /\ last' = Stmt("UTEST_REQUIRE_THROW", TRUE, call, exception, "-", NoOperand, NoOperand, 0)
          /\ executed' = executed + 1

CheckNothrow ==
    /\ MoreChecks
    /\ \E call \in {NoThrow} \cup Kinds :
          /\ Commit(UTEST_CHECK_NOTHROW(Cur, call))
          /\ last' = Stmt("UTEST_CHECK_NOTHROW", FALSE, call, "-", "-", NoOperand, NoOperand, 0)
          /\ executed' = executed + 1

RequireNothrow ==
    /\ MoreChecks
    /\ \E call \in {NoThrow} \cup Kinds :
          /\ Commit(UTEST_REQUIRE_NOTHROW(Cur, call))
          /\ last' = Stmt("UTEST_REQUIRE_NOTHROW", TRUE, call, "-", "-", NoOperand, NoOperand, 0)
          /\ executed' = executed + 1

\* UTEST_CHECK_EQUAL, UTEST_CHECK_NOT_EQUAL, UTEST_CHECK_LESS, ...
CheckRelation ==
    /\ MoreChecks
    /\ \E op \in Relations, left \in LeftOperands, right \in RightOperands :
          /\ Commit(UTEST_EVALUATE_RELATION(Cur, left, right, op, FALSE))
          /\ last' = Stmt("UTEST_CHECK_RELATION", FALSE, "-", "-", op, left, right, 0)
          /\ executed' = executed + 1

\* UTEST_REQUIRE_EQUAL, UTEST_REQUIRE_NOT_EQUAL, UTEST_REQUIRE_LESS, ...
RequireRelation ==
    /\ MoreChecks
    /\ \E op \in Relations, left \in LeftOperands, right \in RightOperands :
          /\ Commit(UTEST_EVALUATE_RELATION(Cur, left, right, op, TRUE))
          /\ last' = Stmt("UTEST_REQUIRE_RELATION", TRUE, "-", "-", op, left, right, 0)
          /\ executed' = executed + 1

CheckClose ==
    /\ MoreChecks
    /\ \E left \in LeftOperands, right \in RightOperands, epsilon \in EpsNums,
          order1 \in Orders, order2 \in Orders :
          /\ Commit(UTEST_CHECK_CLOSE(Cur, left, right, epsilon, order1, order2))
          /\ last' = Stmt("UTEST_CHECK_CLOSE", FALSE, "-", "-", "<", left, right, epsilon)
          /\ executed' = executed + 1

RequireClose ==
    /\ MoreChecks
    /\ \E left \in LeftOperands, right \in RightOperands, epsilon \in EpsNums,
          order1 \in Orders, order2 \in Orders :
          /\ Commit(UTEST_REQUIRE_CLOSE(Cur, left, right, epsilon, order1, order2))
          /\ last' = Stmt("UTEST_REQUIRE_CLOSE", TRUE, "-", "-", "<", left, right, epsilon)
          /\ executed' = executed + 1

Next ==
    \/ BeginModule
    \/ StartCase
    \/ BodyThrows
    \/ EndModule
    \/ Check
    \/ Require
    \/ CheckThrow
    \/ RequireThrow
    \/ CheckNothrow
    \/ RequireNothrow
    \/ CheckRelation
    \/ RequireRelation
    \/ CheckClose
    \/ RequireClose

Spec == Init /\ [][Next]_vars

\* ---------------------------------------- module bodies with rich operands
\* Operand expressions with and without a side effect, either of which may
\* throw, in relational and approximate-equality checks, and direct calls
\* of check_throw.
RichSteps == {0, 1}
RichKinds == {"std::runtime_error", "int"}
\* relational checks: left operands below, equal to and above the right one
RelationLeft ==
    {Operand("left", v, d, NoThrow) : v \in {0, 1, 2}, d \in RichSteps}
        \cup {Operand("left", 0, 0, "int")}
RelationRight ==
    {Operand("right", 1, d, NoThrow) : d \in RichSteps}
        \cup {Operand("right", 0, 0, "std::runtime_error")}
\* approximate-equality checks: every pair of operands also occurs swapped;
\* epsilon is 0 or 3/4
CloseVals == {1, 4}
CloseEps == {0, 3}
CloseLeft ==
    {Operand("left", v, d, NoThrow) : v \in CloseVals, d \in RichSteps}
        \cup {Operand("left", 0, 0, "int")}
CloseRight ==
    {Operand("right", v, d, NoThrow) : v \in CloseVals, d \in RichSteps}
        \cup {Operand("right", 0, 0, "std::runtime_error")}

MoreOperandChecks == Running /\ executed < MaxOperandChecks

\* a statement of the module body that calls check_throw itself
CallCheckThrow ==
    /\ Running
    /\ \E work \in {NoThrow} \cup Kinds, texception \in RichKinds :
          /\ Commit(Returned(check_throw(Cur, texception, work)))
          /\ last' = Stmt("check_throw", FALSE, work, texception, "-", NoOperand, NoOperand, 0)
          /\ executed' = executed

CheckRelationOperands ==
    /\ MoreOperandChecks
    /\ \E op \in Relations, left \in RelationLeft, right \in RelationRight :
          /\ Commit(UTEST_EVALUATE_RELATION(Cur, left, right, op, FALSE))
          /\ last' = Stmt("UTEST_CHECK_RELATION", FALSE, "-", "-", op, left, right, 0)
          /\ executed' = executed + 1

RequireRelationOperands ==
    /\ MoreOperandChecks
    /\ \E op \in Relations, left \in RelationLeft, right \in RelationRight :
          /\ Commit(UTEST_EVALUATE_RELATION(Cur, left, right, op, TRUE))
          /\ last' = Stmt("UTEST_REQUIRE_RELATION", TRUE, "-", "-", op, left, right, 0)
          /\ executed' = executed + 1

CheckCloseOperands ==
    /\ MoreOperandChecks
    /\ \E left \in CloseLeft, right \in CloseRight, epsilon \in CloseEps,
          order1 \in Orders, order2 \in Orders :
          /\ Commit(UTEST_CHECK_CLOSE(Cur, left, right, epsilon, order1, order2))
          /\ last' = Stmt("UTEST_CHECK_CLOSE", FALSE, "-", "-", "<", left, right, epsilon)
          /\ executed' = executed + 1

RequireCloseOperands ==
    /\ MoreOperandChecks
    /\ \E left \in CloseLeft, right \in CloseRight, epsilon \in CloseEps,
          order1 \in Orders, order2 \in Orders :
          /\ Commit(UTEST_REQUIRE_CLOSE(Cur, left, right, epsilon, order1, order2))
          /\ last' = Stmt("UTEST_REQUIRE_CLOSE", TRUE, "-", "-", "<", left, right, epsilon)
          /\ executed' = executed + 1

NextOperands ==
    \/ BeginModule
    \/ CallCheckThrow
    \/ CheckRelationOperands
    \/ RequireRelationOperands
    \/ CheckCloseOperands
    \/ RequireCloseOperands
    \/ EndModule

SpecOperands == Init /\ [][NextOperands]_vars

\* ------------------------------------------- the life of the process
\* Module bodies of case starts, boolean checks and throwing statements.
\* The process is sequential and no statement blocks: while a statement of
\* the body or the end of the module is left to run, it runs.
NextLifecycle ==
    \/ BeginModule
    \/ StartCase
    \/ BodyThrows
    \/ Check
    \/ Require
    \/ EndModule

SpecLifecycle == Init /\ [][NextLifecycle]_vars /\ WF_vars(NextLifecycle)

\* --------------------------------------------- checks run by threads
\* The module body starts the threads of Threads; each runs MaxThreadChecks
\* non-critical boolean checks, and the main thread ends the module when
\* all have finished. The counters are std::atomic: ++ is one indivisible
\* read-modify-write, whatever value the thread saw before.

\* faulty variant: the counter is a plain std::size_t, and ++ stores one
\* more than the value the thread loaded earlier
AtomicIncrement_LoadThenStore(counter, seen) == seen + 1

\* ++ utest_n_checks, ++ utest_n_failures
AtomicIncrement(counter, seen) == counter + 1

AllThreads(pc) == \A t \in Threads : threads[t].pc = pc
\* where a thread goes after a check
AfterCheck(ran) == IF ran < MaxThreadChecks THEN "count" ELSE "done"

StartThreads ==
    /\ Running
    /\ AllThreads("idle")
    /\ threads' = [t \in Threads |-> Thread("count", utest_n_checks, 0, 0)]
    /\ last' = Plain("start threads", "-")
    /\ UNCHANGED <<utest_case_name, utest_module_name, utest_n_cases, utest_n_checks,
                   utest_n_failures, cout, status, exit_code, uncaught, evals,
                   invoked, outcome, executed>>

\* ++ utest_n_checks; if (!(check))
ThreadEvaluate ==
    /\ Running
    /\ \E t \in Threads, check \in {"true", "false"} :
          /\ threads[t].pc = "count"
          /\ utest_n_checks' = AtomicIncrement(utest_n_checks, threads[t].seen)
          /\ threads' = [threads EXCEPT ![t] =
                IF check = "false"
                THEN Thread("fail", utest_n_failures, @.ran + 1, @.failed)
                ELSE Thread(AfterCheck(@.ran + 1), utest_n_checks', @.ran + 1, @.failed)]
    /\ UNCHANGED <<utest_case_name, utest_module_name, utest_n_cases,
                   utest_n_failures, cout, status, exit_code, uncaught, evals,
                   invoked, outcome, executed, last>>

\* ++ utest_n_failures
ThreadCountFailure ==
    /\ Running
    /\ \E t \in Threads :
          /\ threads[t].pc = "fail"
          /\ utest_n_failures' = AtomicIncrement(utest_n_failures, threads[t].seen)
          /\ threads' = [threads EXCEPT ![t] = Thread("print", @.seen, @.ran, @.failed + 1)]
    /\ UNCHANGED <<utest_case_name, utest_module_name, utest_n_cases, utest_n_checks,
                   cout, status, exit_code, uncaught, evals, invoked, outcome,
                   executed, last>>

\* std::cout << ... << std::endl; the line is on the output when its last
\* piece is written
ThreadPrintFailure ==
    /\ Running
    /\ \E t \in Threads :
          /\ threads[t].pc = "print"
          /\ cout' = Append(cout, Line("diag", utest_module_name, utest_case_name,
                                       "check failed", 0, 0, ""))
          /\ threads' = [threads EXCEPT ![t] =
                Thread(AfterCheck(@.ran), utest_n_checks, @.ran, @.failed)]
    /\ UNCHANGED <<utest_case_name, utest_module_name, utest_n_cases, utest_n_checks,
                   utest_n_failures, status, exit_code, uncaught, evals, invoked,
                   outcome, executed, last>>

\* the main thread joins the threads and ends the module
JoinAndEndModule ==
    /\ AllThreads("done")
    /\ EndModule

NextThreads ==
    \/ BeginModule
    \/ StartThreads
    \/ ThreadEvaluate
    \/ ThreadCountFailure
    \/ ThreadPrintFailure
    \/ JoinAndEndModule

SpecThreads == Init /\ [][NextThreads]_vars

\* ------------------------------------------------------------ properties
Terminated == status \in {"ABORTED", "MODULE_ENDED"}
Lines(kind) == {i \in DOMAIN cout : cout[i].kind = kind}
LinesAfter(kind) == {i \in DOMAIN cout' : cout'[i].kind = kind}
BooleanChecks == {"UTEST_CHECK", "UTEST_REQUIRE"}

\* C1: in every reachable state checks_failed <= checks_evaluated, and no
\* step of a run decreases checks_evaluated or checks_failed.
C1_FailedAtMostEvaluated ==
    /\ utest_n_failures <= utest_n_checks
    /\ [][/\ utest_n_failures' <= utest_n_checks'
          /\ utest_n_checks' >= utest_n_checks
          /\ utest_n_failures' >= utest_n_failures]_vars

\* a run cut short by a critical abort after a passed and a failed check
C1_Witness ==
    /\ status = "ABORTED"
    /\ utest_n_checks = 2
    /\ utest_n_failures = 1

\* C2: a step in which a critical check fails ends the process in ABORTED
\* with exit status FAILURE and without a summary line, and no step is
\* taken from ABORTED: no check, no counter change, no case start, no
\* summary.
C2_CriticalFailureTerminates ==
    [][/\ (last'.critical /\ utest_n_failures' > utest_n_failures)
            => /\ status' = "ABORTED"
               /\ exit_code' = "FAILURE"
               /\ LinesAfter("summary") = {}
       /\ status # "ABORTED"]_vars

\* a critical check failed while the module body had statements left
C2_Witness ==
    /\ status = "ABORTED"
    /\ last.critical
    /\ exit_code = "FAILURE"
    /\ utest_n_failures = 1
    /\ executed < MaxChecks

\* C3: the exit status is SUCCESS exactly when the run reached
\* UTEST_END_MODULE with no failed check and no exception left the module
\* body; every other terminated run has exit status FAILURE, and a running
\* process has none.
C3_ExitStatus ==
    /\ exit_code = "SUCCESS"
         <=> /\ status = "MODULE_ENDED"
             /\ last.op = "UTEST_END_MODULE"
             /\ uncaught = "none"
             /\ utest_n_failures = 0
    /\ Terminated /\ exit_code # "SUCCESS" => exit_code = "FAILURE"
    /\ ~Terminated => exit_code = "none"

\* a module end after a failed check
C3_Witness ==
    /\ last.op = "UTEST_END_MODULE"
    /\ utest_n_failures > 0
    /\ exit_code = "FAILURE"

\* C4: a boolean check (UTEST_CHECK or UTEST_REQUIRE) whose predicate is
\* true adds exactly 1 to checks_evaluated and changes nothing else: not
\* checks_failed, cases_started, the names, the output, nor the process
\* state.
C4_PassingBooleanCheck ==
    [][(last'.op \in BooleanChecks /\ last'.arg = "true")
          => /\ utest_n_checks' = utest_n_checks + 1
             /\ UNCHANGED <<utest_n_failures, utest_n_cases, utest_module_name,
                            utest_case_name, cout, status, exit_code, uncaught>>]_vars

\* two passing boolean checks in a row: 2 evaluated, 0 failed
C4_Witness ==
    /\ last.op = "UTEST_REQUIRE"
    /\ last.arg = "true"
    /\ utest_n_checks = 2
    /\ utest_n_failures = 0
    /\ executed = 2

\* C5: a UTEST_CHECK whose predicate is false adds exactly 1 to
\* checks_evaluated and to checks_failed, and the process keeps running in
\* the same case.
C5_FailingNonCriticalCheck ==
    [][(last'.op = "UTEST_CHECK" /\ last'.arg = "false")
          => /\ utest_n_checks' = utest_n_checks + 1
             /\ utest_n_failures' = utest_n_failures + 1
             /\ status' = "MODULE_RUNNING"
             /\ exit_code' = "none"
             /\ UNCHANGED <<utest_case_name, utest_n_cases>>]_vars

\* a failed UTEST_CHECK inside a case, the process still running
C5_Witness ==
    /\ last.op = "UTEST_CHECK"
    /\ last.arg = "false"
    /\ utest_n_cases = 1
    /\ utest_n_failures = 1
    /\ status = "MODULE_RUNNING"

\* C6: UTEST_CHECK_THROW(work, E) adds exactly 1 to checks_evaluated; it
\* leaves checks_failed unchanged iff work throws an exception that is an E,
\* otherwise (nothing thrown, or another kind) it adds exactly 1 to
\* checks_failed; the process keeps running.
C6_CheckThrow ==
    [][(last'.op = "UTEST_CHECK_THROW")
          => /\ utest_n_checks' = utest_n_checks + 1
             /\ utest_n_failures' = utest_n_failures
                  <=> (last'.arg # NoThrow /\ IsA(last'.arg, last'.exception))
             /\ utest_n_failures' # utest_n_failures
                  => utest_n_failures' = utest_n_failures + 1
             /\ status' = "MODULE_RUNNING"]_vars

\* the work threw nothing and the check was recorded as one failure
C6_Witness ==
    /\ last.op = "UTEST_CHECK_THROW"
    /\ last.arg = NoThrow
    /\ utest_n_failures = 1
    /\ utest_n_checks = 1

\* C7: UTEST_CHECK_NOTHROW(work) adds exactly 1 to checks_evaluated; it
\* leaves checks_failed unchanged iff work throws nothing, and adds exactly
\* 1 to checks_failed when work throws an exception of any kind.
C7_CheckNothrow ==
    [][(last'.op = "UTEST_CHECK_NOTHROW")
          => /\ utest_n_checks' = utest_n_checks + 1
             /\ last'.arg = NoThrow => utest_n_failures' = utest_n_failures
             /\ last'.arg # NoThrow => utest_n_failures' = utest_n_failures + 1]_vars

\* the work threw a standard exception and the check failed
C7_Witness ==
    /\ last.op = "UTEST_CHECK_NOTHROW"
    /\ last.arg = "std::runtime_error"
    /\ utest_n_failures = 1

\* C8: the counters are zero when the module starts, and at module end
\* the summary reports as many checks as check statements ran and as many
\* failures as checks failed (one diagnostic line each), with exit status
\* FAILURE iff at least one failed, however the checks are spread over
\* cases.
C8_SummaryReportsCounts ==
    /\ last.op \in {"none", "UTEST_BEGIN_MODULE"}
         => utest_n_checks = 0 /\ utest_n_failures = 0 /\ utest_n_cases = 0
    /\ last.op = "UTEST_END_MODULE"
         => LET f == Cardinality(Lines("diag"))
                summary == cout[Len(cout)]
            IN  /\ Len(cout) > 0
                /\ summary.kind = "summary"
                /\ summary.a = f
                /\ summary.b = executed
                /\ summary.text = IF f > 0 THEN "failed with" ELSE "no errors detected in"
                /\ exit_code = IF f > 0 THEN "FAILURE" ELSE "SUCCESS"

\* module end after two cases and two checks, one of them failed
C8_Witness ==
    /\ last.op = "UTEST_END_MODULE"
    /\ utest_n_cases = 2
    /\ executed = 2
    /\ Cardinality(Lines("diag")) = 1
    /\ cout[2].kind = "diag"

\* C9 as stated: every run that ends otherwise than by a critical abort,
\* a run in which an exception leaves the module body included, has
\* printed the summary line exactly once.
C9_Original ==
    status = "MODULE_ENDED" => Cardinality(Lines("summary")) = 1

\* C9, amended: a run that reaches UTEST_END_MODULE has printed the summary
\* line exactly once, as its last line; a run in which an exception leaves
\* the module body, a critical abort and a running process have printed
\* none (the exception's line is printed instead of a summary).
C9_SummaryOnceAtModuleEnd ==
    /\ (status = "MODULE_ENDED" /\ uncaught = "none")
         => /\ Cardinality(Lines("summary")) = 1
            /\ cout[Len(cout)].kind = "summary"
    /\ (status # "MODULE_ENDED" \/ uncaught # "none")
         => Lines("summary") = {}
    /\ uncaught # "none"
         => /\ status = "MODULE_ENDED"
            /\ cout[Len(cout)].kind = "uncaught"

\* module end with a failed check: the failure form of the summary
C9_Witness ==
    /\ status = "MODULE_ENDED"
    /\ uncaught = "none"
    /\ utest_n_failures = 1
    /\ Cardinality(Lines("summary")) = 1

\* C10: every summary line has the singular "check" exactly when the
\* number of checks it reports is 1, and "checks" otherwise.
C10_Pluralization ==
    \A i \in Lines("summary") :
        cout[i].noun = IF cout[i].b = 1 THEN "check" ELSE "checks"

\* C11: a step in which an exception leaves the module body ends in
\* MODULE_ENDED with exit status FAILURE, whatever checks_failed is; the
\* handler's line is the last line written, with the description for a
\* std::exception and the fixed text for any other kind; the counters keep
\* their values but for the check that threw, and no step follows.
C11_UncaughtAtModuleBoundary ==
    [][/\ (uncaught' # "none")
            => /\ uncaught = "none"
               /\ status = "MODULE_RUNNING"
               /\ status' = "MODULE_ENDED"
               /\ exit_code' = "FAILURE"
               /\ Len(cout') = Len(cout) + 1
               /\ cout'[Len(cout')].kind = "uncaught"
               /\ cout'[Len(cout')].text =
                      IF IsA(uncaught', "std::exception") THEN "uncaught exception"
                      ELSE "uncaught unknown exception"
               /\ utest_n_failures' = utest_n_failures
               /\ utest_n_cases' = utest_n_cases
       /\ (last'.op = "throw") => uncaught' = last'.arg
       /\ (last'.op \in BooleanChecks /\ last'.arg \in Kinds) => uncaught' = last'.arg
       /\ uncaught = "none"]_vars

\* an exception of no standard type left a body without failed checks
C11_Witness ==
    /\ uncaught = "int"
    /\ last.op = "throw"
    /\ utest_n_failures = 0
    /\ utest_n_checks = 1
    /\ exit_code = "FAILURE"

ThrowChecks == {"UTEST_CHECK_THROW", "UTEST_REQUIRE_THROW"}
NothrowChecks == {"UTEST_CHECK_NOTHROW", "UTEST_REQUIRE_NOTHROW"}
RelationChecks == {"UTEST_CHECK_RELATION", "UTEST_REQUIRE_RELATION"}
CloseChecks == {"UTEST_CHECK_CLOSE", "UTEST_REQUIRE_CLOSE"}

\* the statement that ran last is a check in whose work, predicate or
\* operand the code under test raised an exception the check did not expect
RaisedUnexpected(l) ==
    \/ l.op \in BooleanChecks /\ l.arg \in Kinds
    \/ l.op \in NothrowChecks /\ l.arg # NoThrow
    \/ l.op \in ThrowChecks /\ l.arg # NoThrow /\ ~IsA(l.arg, l.exception)
    \/ l.op \in RelationChecks \cup CloseChecks /\ l.left.throws # NoThrow

\* C12 as stated: whenever the code under test raises an exception inside
\* a check that expected none or another kind, whatever the family of the
\* check, the check is recorded as failed, the exception does not reach the
\* module boundary, and a non-critical check leaves the process running.
C12_Original ==
    [][RaisedUnexpected(last')
          => /\ utest_n_failures' = utest_n_failures + 1
             /\ uncaught' = "none"
             /\ ~last'.critical => status' = "MODULE_RUNNING"]_vars

\* C12, amended: an exception raised by the work of an exception-expectation
\* check (UTEST_CHECK_THROW / UTEST_REQUIRE_THROW that expected another
\* kind, UTEST_CHECK_NOTHROW / UTEST_REQUIRE_NOTHROW) is handled at the
\* check: the check is counted and recorded as failed with one diagnostic
\* line, the exception does not reach the module boundary, a non-critical
\* check leaves the process running and a critical one aborts it. An
\* exception raised by the predicate of a boolean check or by an operand of
\* a relational or approximate-equality check is not handled at the check:
\* the check is counted but not recorded as failed, and the exception is
\* caught at the module boundary, which ends the process with FAILURE.
C12_UnexpectedExceptionInCheck ==
    [][/\ (RaisedUnexpected(last') /\ last'.op \in ThrowChecks \cup NothrowChecks)
            => /\ utest_n_checks' = utest_n_checks + 1
               /\ utest_n_failures' = utest_n_failures + 1
               /\ uncaught' = "none"
               /\ cout' = Append(cout, cout'[Len(cout')])
               /\ cout'[Len(cout')].kind = "diag"
               /\ status' = IF last'.critical THEN "ABORTED" ELSE "MODULE_RUNNING"
       /\ (RaisedUnexpected(last') /\ last'.op \notin ThrowChecks \cup NothrowChecks)
            => /\ utest_n_checks' = utest_n_checks + 1
               /\ utest_n_failures' = utest_n_failures
               /\ uncaught' = (IF last'.op \in BooleanChecks THEN last'.arg
                               ELSE last'.left.throws)
               /\ status' = "MODULE_ENDED"
               /\ exit_code' = "FAILURE"]_vars

\* the work of a UTEST_CHECK_THROW that expects a std::runtime_error threw
\* an int after an earlier failed check: two failures, the process running
C12_Witness ==
    /\ last.op = "UTEST_CHECK_THROW"
    /\ last.arg = "int"
    /\ last.exception = "std::runtime_error"
    /\ utest_n_failures = 2
    /\ uncaught = "none"
    /\ status = "MODULE_RUNNING"

\* the outcome of a relational check, from the values its operands have at
\* their first evaluation
RelationHolds(l) == Holds(l.rel, Fix(l.left.val), Fix(l.right.val))
NoOperandThrows(l) == l.left.throws = NoThrow /\ l.right.throws = NoThrow

\* C13: a relational check (any of the six relations, critical or not)
\* whose operands do not throw evaluates its left operand expression once
\* and its right operand expression once, adds exactly 1 to
\* checks_evaluated, adds exactly 1 to checks_failed iff the relation does
\* not hold between the two evaluated values, and the diagnostic of a
\* failure shows those two values and the relation; a passing check writes
\* nothing.
C13_RelationalCheck ==
    [][(last'.op \in RelationChecks /\ NoOperandThrows(last'))
          => /\ evals' = [left |-> 1, right |-> 1]
             /\ utest_n_checks' = utest_n_checks + 1
             /\ RelationHolds(last') => /\ utest_n_failures' = utest_n_failures
                                        /\ cout' = cout
             /\ ~RelationHolds(last')
                  => /\ utest_n_failures' = utest_n_failures + 1
                     /\ cout' = Append(cout, Line("diag", utest_module_name, utest_case_name,
                                                  last'.rel, Fix(last'.left.val),
                                                  Fix(last'.right.val), ""))]_vars

\* a failed UTEST_CHECK_EQUAL whose two operand expressions have a side
\* effect: 2 == 1 failed and the diagnostic shows 2 and 1
C13_Witness ==
    /\ last.op = "UTEST_CHECK_RELATION"
    /\ last.rel = "=="
    /\ last.left = Operand("left", 2, 1, NoThrow)
    /\ last.right = Operand("right", 1, 1, NoThrow)
    /\ utest_n_failures = 1
    /\ evals = [left |-> 1, right |-> 1]
    /\ cout[Len(cout)].a = Fix(2)
    /\ cout[Len(cout)].b = Fix(1)

\* the name of the case started last before line i was written
RECURSIVE CaseAt(_)
CaseAt(i) ==
    IF i = 0 THEN ""
    ELSE IF cout[i].kind = "case" THEN cout[i].case
    ELSE CaseAt(i - 1)

\* C14: in every reachable state the number of diagnostic lines written
\* equals checks_failed, and each diagnostic line carries the module name
\* and the name of the case started last before it (none before the first
\* case); a step that fails a check writes exactly one line, a diagnostic,
\* and a step that fails none writes no diagnostic.
C14_OneDiagnosticPerFailure ==
    /\ Cardinality(Lines("diag")) = utest_n_failures
    /\ \A i \in Lines("diag") :
          /\ cout[i].module = utest_module_name
          /\ cout[i].case = CaseAt(i)
    /\ [][/\ utest_n_failures' # utest_n_failures
               => /\ utest_n_failures' = utest_n_failures + 1
                  /\ cout' = Append(cout, cout'[Len(cout')])
                  /\ cout'[Len(cout')].kind = "diag"
                  /\ cout'[Len(cout')].case = utest_case_name
          /\ utest_n_failures' = utest_n_failures
               => LinesAfter("diag") = Lines("diag")]_vars

\* a failed check in the first case and a failed check in the second: two
\* diagnostic lines, each with the name of its own case
C14_Witness ==
    /\ utest_n_failures = 2
    /\ utest_n_cases = 2
    /\ Len(cout) = 4
    /\ cout[2].kind = "diag" /\ cout[2].case = "caseA"
    /\ cout[4].kind = "diag" /\ cout[4].case = "caseB"

\* C15: starting a case adds exactly 1 to cases_started and makes the new
\* name the current case name, and leaves checks_evaluated, checks_failed,
\* the module name and the process state unchanged; no other step changes
\* the current case name or cases_started.
C15_StartCase ==
    [][/\ last'.op = "UTEST_CASE"
            => /\ utest_n_cases' = utest_n_cases + 1
               /\ utest_case_name' = last'.arg
               /\ UNCHANGED <<utest_n_checks, utest_n_failures, utest_module_name,
                              status, exit_code, uncaught>>
       /\ last'.op # "UTEST_CASE"
            => UNCHANGED <<utest_case_name, utest_n_cases>>]_vars

\* a second case started after a failed check of the first: the counters
\* keep their values and the name is the new one
C15_Witness ==
    /\ last.op = "UTEST_CASE"
    /\ utest_n_cases = 2
    /\ utest_case_name = "caseB"
    /\ utest_n_checks = 1
    /\ utest_n_failures = 1

\* the exception_status check_throw<texception> returns for a unit of work
Classification(work, texception) ==
    IF work = NoThrow THEN "none"
    ELSE IF IsA(work, texception) THEN "expected"
    ELSE "unexpected"

\* C16: a call of check_throw invokes the unit of work exactly once and
\* returns none when the work throws nothing, expected when it throws the
\* designated kind (or a kind derived from it), unexpected when it throws
\* anything else; no exception leaves the call, and the call changes no
\* counter, no name, no output and not the process state.
C16_CheckThrowClassifies ==
    [][last'.op = "check_throw"
          => /\ invoked' = 1
             /\ outcome' = Classification(last'.arg, last'.exception)
             /\ uncaught' = "none"
             /\ UNCHANGED <<utest_n_checks, utest_n_failures, utest_n_cases,
                            utest_case_name, utest_module_name, cout, status,
                            exit_code>>]_vars

\* the work threw a std::exception where a std::runtime_error was
\* designated: classified unexpected, and the process still runs
C16_Witness ==
    /\ last.op = "check_throw"
    /\ last.arg = "std::exception"
    /\ last.exception = "std::runtime_error"
    /\ outcome = "unexpected"
    /\ invoked = 1
    /\ status = "MODULE_RUNNING"

\* C17: the process goes from UNSTARTED to MODULE_RUNNING by the module
\* start only, and from MODULE_RUNNING to ABORTED by a failed critical
\* check or to MODULE_ENDED; case starts and checks happen only in
\* MODULE_RUNNING; no step is taken from ABORTED or MODULE_ENDED; the
\* module is started once, its name is kept and no counter ever
\* decreases; the process has an exit status exactly when it is in a
\* terminal state; and every run eventually reaches a terminal state with
\* an exit status.
C17_Lifecycle ==
    /\ [][/\ status \notin {"ABORTED", "MODULE_ENDED"}
          /\ status = "UNSTARTED"
               => /\ last'.op = "UTEST_BEGIN_MODULE"
                  /\ status' = "MODULE_RUNNING"
          /\ last'.op = "UTEST_BEGIN_MODULE" => status = "UNSTARTED"
          /\ last'.op # "UTEST_BEGIN_MODULE"
               => /\ status = "MODULE_RUNNING"
                  /\ status' \in {"MODULE_RUNNING", "ABORTED", "MODULE_ENDED"}
                  /\ utest_module_name' = utest_module_name
          /\ status' = "ABORTED"
               => /\ last'.critical
                  /\ utest_n_failures' = utest_n_failures + 1
          /\ status' = "MODULE_ENDED"
               => last'.op = "UTEST_END_MODULE" \/ uncaught' # "none"
          /\ utest_n_checks' >= utest_n_checks
          /\ utest_n_failures' >= utest_n_failures
          /\ utest_n_cases' >= utest_n_cases
          /\ (status' \in {"ABORTED", "MODULE_ENDED"})
               <=> (exit_code' \in {"SUCCESS", "FAILURE"})]_vars
    /\ <>(Terminated /\ exit_code \in {"SUCCESS", "FAILURE"})

\* a critical check failed in the second case, after a passed check of the
\* first: the process is ABORTED with the counters of the whole run
C17_Witness ==
    /\ status = "ABORTED"
    /\ exit_code = "FAILURE"
    /\ last.op = "UTEST_REQUIRE"
    /\ utest_n_cases = 2
    /\ utest_n_checks = 2
    /\ utest_n_failures = 1

\* the value of an operand expression at its first and at its second
\* evaluation
FirstValue(e) == Fix(e.val)
SecondValue(e) == Fix(e.val + e.step)
\* 1 + |x| + |y| as floating-point arithmetic computes it, left to right
FloatSum(x, y) == Round(Round(Fix(1) + Abs(x)) + Abs(y))
\* the operands of the check that ran last, swapped
SwappedLeft(l) == Operand("left", l.right.val, l.right.step, l.right.throws)
SwappedRight(l) == Operand("right", l.left.val, l.left.step, l.left.throws)
PlainOperands(l) == NoOperandThrows(l) /\ l.left.step = 0 /\ l.right.step = 0

\* C18 as stated: an approximate-equality check of two values passes iff
\* |left - right| < epsilon * (1 + |left| + |right|) holds of the numbers,
\* its result is the same with left and right swapped, and it adds 1 to
\* checks_evaluated and 1 to checks_failed exactly when it fails.
C18_Original ==
    [][(last'.op \in CloseChecks /\ PlainOperands(last'))
          => LET x == FirstValue(last'.left)
                 y == FirstValue(last'.right)
                 passes == Abs(x - y) * EpsDen < last'.epsilon * (Fix(1) + Abs(x) + Abs(y))
             IN  /\ utest_n_checks' = utest_n_checks + 1
                 /\ utest_n_failures' = utest_n_failures + (IF passes THEN 0 ELSE 1)
                 /\ utest_n_failures' =
                        UTEST_EVALUATE_CLOSE(Cur, SwappedLeft(last'), SwappedRight(last'),
                                             last'.epsilon, "lr", "lr", last'.critical).n_failures]_vars

\* C18, amended: an approximate-equality check whose operands do not throw
\* passes iff d < t with a strict inequality, where d is the floating-point
\* value of |left - right| and t the floating-point value of
\* epsilon * (1 + |left| + |right|), the sum taken left to right and every
\* operation rounded (d from the first evaluation of the operand
\* expressions and t from their second); it adds exactly 1 to
\* checks_evaluated, and 1 to checks_failed exactly when it fails. Its
\* result is the same with left and right swapped whenever the
\* floating-point sum 1 + |left| + |right| is the same in both orders.
C18_CloseCheck ==
    [][(last'.op \in CloseChecks /\ NoOperandThrows(last'))
          => LET d == Round(Abs(FirstValue(last'.left) - FirstValue(last'.right)))
                 x == SecondValue(last'.left)
                 y == SecondValue(last'.right)
                 passes == d < TimesEpsilon(last'.epsilon, FloatSum(x, y))
             IN  /\ utest_n_checks' = utest_n_checks + 1
                 /\ utest_n_failures' = utest_n_failures + (IF passes THEN 0 ELSE 1)
                 /\ FloatSum(x, y) = FloatSum(y, x)
                      => utest_n_failures' =
                             UTEST_EVALUATE_CLOSE(Cur, SwappedLeft(last'), SwappedRight(last'),
                                                  last'.epsilon, "lr", "lr",
                                                  last'.critical).n_failures]_vars

\* UTEST_CHECK_CLOSE(4, 1, 3/4) failed although 3 < 4.5: the sum 1 + 4 + 1
\* is rounded down on the way, and the diagnostic shows two equal sides
C18_Witness ==
    /\ last.op = "UTEST_CHECK_CLOSE"
    /\ last.left = Operand("left", 4, 0, NoThrow)
    /\ last.right = Operand("right", 1, 0, NoThrow)
    /\ last.epsilon = 3
    /\ utest_n_failures = 1
    /\ utest_n_checks = 1
    /\ cout[Len(cout)].a = cout[Len(cout)].b

\* C20: an approximate-equality check whose operands do not throw
\* evaluates the caller's left operand expression exactly once and the
\* right operand expression exactly once, whether it passes or fails.
C20_CloseEvaluatesOperandsOnce ==
    [][(last'.op \in CloseChecks /\ NoOperandThrows(last'))
          => evals' = [left |-> 1, right |-> 1]]_vars

\* the checks the threads ran and failed so far
RECURSIVE Total(_, _)
Total(field, ts) ==
    IF ts = {} THEN 0
    ELSE LET t == CHOOSE x \in ts : TRUE
         IN  threads[t][field] + Total(field, ts \ {t})

\* C19: when several threads evaluate non-critical checks concurrently,
\* no increment is lost under any interleaving: checks_evaluated always
\* equals the number of checks the threads have begun and checks_failed
\* the number of failures they have counted, so once all threads have
\* finished the counters equal the totals of checks evaluated and failed;
\* and checks_failed <= checks_evaluated in every intermediate state.
C19_AtomicCounters ==
    /\ utest_n_checks = Total("ran", Threads)
    /\ utest_n_failures = Total("failed", Threads)
    /\ utest_n_failures <= utest_n_checks
    /\ AllThreads("done")
         => /\ utest_n_checks = Cardinality(Threads) * MaxThreadChecks
            /\ utest_n_failures = Cardinality(Lines("diag"))

\* both threads have finished; of their four checks three failed
C19_Witness ==
    /\ AllThreads("done")
    /\ status = "MODULE_RUNNING"
    /\ utest_n_checks = 4
    /\ utest_n_failures = 3
    /\ threads["t1"].failed = 1
    /\ threads["t2"].failed = 2
====
